---- MODULE Spec2Model ----
(***************************************************************************)
(* A model of web/environments.go of trento: the filter query builder      *)
(* (CreateFilterMetaQuery), the node facade (Node.Health, Node.TrentoMeta),*)
(* the topology loader (loadEnvironments) and the filter vocabulary loader *)
(* (loadFilter, loadFilters).                                              *)
(*                                                                         *)
(* Go strings are TLA+ strings (TLC evaluates \o, Len and SubSeq on them). *)
(* A Go map is a function; the order in which `range` visits a map is a    *)
(* nondeterministic permutation of its keys.  A nil error is NoError.      *)
(***************************************************************************)
EXTENDS Naturals, Sequences, FiniteSets, TLC

VARIABLES
    \* CreateFilterMetaQuery
    query,          \* the argument: tag name -> sequence of values
    query_filter,   \* the returned expression
    pcQ,            \* "ready" before the call, "done" after it
    \* Node.TrentoMeta
    nodeMeta,       \* n.Node.Meta
    metaBefore,     \* n.Node.Meta as it was when TrentoMeta was called
    filtered_meta,  \* the returned mapping
    pcM,
    \* loadFilters
    kv,             \* what KV().Get answers for each key when it is asked
    filter_data,    \* the local map filter_data
    filterIdx,      \* position of `range TRENTO_FILTERS()`
    kvCalls,        \* the keys asked of KV().Get so far, in order
    filtersRet,     \* what loadFilters returned: [nil, data, err]
    pcF,            \* "loop" while the loop runs, "done" after the return
    \* loadEnvironments
    dcsResp,        \* what Catalog().Datacenters() answers
    nodesResp,      \* what Catalog().Nodes() answers
    healthResp,     \* what Health().Node(name) answers, per node name
    health_filter,  \* the argument health_filter
    environments,   \* the local EnvironmentList
    idx,            \* position of `range nodes`
    envRet,         \* what loadEnvironments returned: [nil, envs, err]
    calls,          \* the remote calls issued so far, in order
    pcE             \* "start", "seeded", "loop", "returned", "panicked"

varsQ == <<query, query_filter, pcQ>>
varsM == <<nodeMeta, metaBefore, filtered_meta, pcM>>
varsF == <<kv, filter_data, filterIdx, kvCalls, filtersRet, pcF>>
varsE == <<dcsResp, nodesResp, healthResp, health_filter, environments, idx,
           envRet, calls, pcE>>
vars == <<varsQ, varsM, varsF, varsE>>

----------------------------------------------------------------------------
(* Bounds of the model *)

\* longest value list of one tag in a query
MaxValues == 2

\* most nodes the catalog returns
MaxNodes == 2

----------------------------------------------------------------------------
(* Constants of the program and helpers of the Go runtime *)

TRENTO_PREFIX == "trento-"

TRENTO_FILTERS_PREFIX == "trento/filters/"

TRENTO_FILTERS == <<"sap-environments", "sap-landscapes", "sap-systems">>

\* the nil error
NoError == "<nil>"

\* strings.HasPrefix
HasPrefix(s, prefix) ==
    /\ Len(s) >= Len(prefix)
    /\ SubSeq(s, 1, Len(prefix)) = prefix

\* strings.Join
RECURSIVE Join(_, _)
Join(elems, sep) ==
    IF Len(elems) = 0 THEN ""
    ELSE IF Len(elems) = 1 THEN elems[1]
    ELSE elems[1] \o sep \o Join(Tail(elems), sep)

\* the orders in which `range` may visit the keys of a map
Perms(S) ==
    {f \in [1..Cardinality(S) -> S] : \A i, j \in 1..Cardinality(S) : f[i] = f[j] => i = j}

\* all sequences over S of length at most n
SeqsUpTo(S, n) == UNION {[1..k -> S] : k \in 0..n}

Range(s) == {s[i] : i \in DOMAIN s}

\* errors.Wrap of github.com/pkg/errors: nil when err is nil
Wrap(err, message) ==
    IF err = NoError THEN NoError ELSE message \o ": " \o err

----------------------------------------------------------------------------
(* CreateFilterMetaQuery *)

\* the loop over the values of one key
RECURSIVE ValuesLoop(_, _, _, _)
ValuesLoop(filter, key, values, i) ==
    IF i > Len(values) THEN filter
    ELSE LET value == values[i]
             withClause == filter \o "Meta[\"" \o key \o "\"] == \"" \o value \o "\""
             withOr == IF values[Len(values)] # value
                       THEN withClause \o " or "
                       ELSE withClause
         IN ValuesLoop(withOr, key, values, i + 1)

\* the loop over the keys of query, visited in the order `order`
RECURSIVE KeysLoop(_, _, _, _)
KeysLoop(q, order, i, filters) ==
    IF i > Len(order) THEN filters
    ELSE LET key == order[i]
         IN IF HasPrefix(key, TRENTO_PREFIX)
            THEN KeysLoop(q, order, i + 1,
                          Append(filters, ValuesLoop("", key, q[key], 1)))
            ELSE KeysLoop(q, order, i + 1, filters)

CreateFilterMetaQuery(q, order) ==
    LET filters == IF Cardinality(DOMAIN q) # 0
                   THEN KeysLoop(q, order, 1, <<>>)
                   ELSE <<>>
    IN Join(filters, " and ")

QueryKeys == {"trento-env", "trento-sys", "trento", "health"}

QueryValues == {"a", "b"}

QueryInputs ==
    UNION {[K -> SeqsUpTo(QueryValues, MaxValues)] : K \in SUBSET QueryKeys}

CallCreateFilterMetaQuery ==
    /\ pcQ = "ready"
    /\ \E order \in Perms(DOMAIN query) :
           query_filter' = CreateFilterMetaQuery(query, order)
    /\ pcQ' = "done"
    /\ UNCHANGED <<query, varsM, varsF, varsE>>

----------------------------------------------------------------------------
(* Node.TrentoMeta *)

\* the loop over n.Node.Meta, visited in the order `order`
RECURSIVE TrentoMetaLoop(_, _, _, _)
TrentoMetaLoop(meta, order, i, filtered) ==
    IF i > Len(order) THEN filtered
    ELSE LET key == order[i]
         IN IF HasPrefix(key, TRENTO_PREFIX)
            THEN TrentoMetaLoop(meta, order, i + 1,
                     [k \in DOMAIN filtered \cup {key} |->
                         IF k = key THEN meta[key] ELSE filtered[k]])
            ELSE TrentoMetaLoop(meta, order, i + 1, filtered)

EmptyMap == [k \in {} |-> ""]

\* TrentoMeta with the prefix test missing its dash
TrentoMetaLoosePrefix(meta, order) ==
    [k \in {key \in DOMAIN meta : HasPrefix(key, "trento")} |-> meta[k]]

TrentoMeta(meta, order) == TrentoMetaLoop(meta, order, 1, EmptyMap)

MetaKeys == {"trento-env", "trento-sys", "trento", "xtrento-env", "role"}

MetaValues == {"v1", "v2"}

MetaInputs == UNION {[K -> MetaValues] : K \in SUBSET MetaKeys}

CallTrentoMeta ==
    /\ pcM = "ready"
    /\ \E order \in Perms(DOMAIN nodeMeta) :
           filtered_meta' = TrentoMeta(nodeMeta, order)
    /\ metaBefore' = nodeMeta
    /\ pcM' = "done"
    /\ UNCHANGED <<nodeMeta, varsQ, varsF, varsE>>

----------------------------------------------------------------------------
(* Idle values of each component, and the specifications of the two pure   *)
(* functions                                                               *)

IdleQ == query = EmptyMap /\ query_filter = "" /\ pcQ = "idle"

IdleM ==
    /\ nodeMeta = EmptyMap
    /\ metaBefore = EmptyMap
    /\ filtered_meta = EmptyMap
    /\ pcM = "idle"

IdleF ==
    /\ kv = EmptyMap
    /\ filter_data = EmptyMap
    /\ filterIdx = 0
    /\ kvCalls = <<>>
    /\ filtersRet = [nil |-> TRUE, data |-> EmptyMap, err |-> NoError]
    /\ pcF = "idle"

IdleE ==
    /\ dcsResp = [err |-> NoError, dcs |-> <<>>]
    /\ nodesResp = [err |-> NoError, nodes |-> <<>>]
    /\ healthResp = EmptyMap
    /\ health_filter = <<>>
    /\ environments = EmptyMap
    /\ idx = 0
    /\ envRet = [nil |-> TRUE, envs |-> EmptyMap, err |-> NoError]
    /\ calls = <<>>
    /\ pcE = "idle"

InitQuery ==
    /\ query \in QueryInputs
    /\ query_filter = ""
    /\ pcQ = "ready"
    /\ IdleM /\ IdleF /\ IdleE

NextQuery == CallCreateFilterMetaQuery

SpecQuery == InitQuery /\ [][NextQuery]_vars

InitMeta ==
    /\ nodeMeta \in MetaInputs
    /\ metaBefore = nodeMeta
    /\ filtered_meta = EmptyMap
    /\ pcM = "ready"
    /\ IdleQ /\ IdleF /\ IdleE

NextMeta == CallTrentoMeta

SpecMeta == InitMeta /\ [][NextMeta]_vars

----------------------------------------------------------------------------
(* loadFilter and loadFilters *)

Char(s, i) == SubSeq(s, i, i)

\* whether s holds the text t at position i
HasAt(s, i, t) == i + Len(t) - 1 <= Len(s) /\ SubSeq(s, i, i + Len(t) - 1) = t

IsSpace(c) == c \in {" ", "\t", "\n", "\r"}

\* the first position at or after i that holds no JSON white space
RECURSIVE SkipSpace(_, _)
SkipSpace(s, i) ==
    IF i <= Len(s) /\ IsSpace(Char(s, i)) THEN SkipSpace(s, i + 1) ELSE i

\* position of the character c in alphabet, 0 when it is not there
RECURSIVE IndexIn(_, _, _)
IndexIn(alphabet, c, i) ==
    IF i > Len(alphabet) THEN 0
    ELSE IF Char(alphabet, i) = c THEN i
    ELSE IndexIn(alphabet, c, i + 1)

\* the value of a hexadecimal digit, 16 for any other character
HexValue(c) ==
    LET lower == IndexIn("0123456789abcdef", c, 1)
        upper == IndexIn("0123456789ABCDEF", c, 1)
    IN IF lower # 0 THEN lower - 1 ELSE IF upper # 0 THEN upper - 1 ELSE 16

\* the characters of the code points 32 to 95
AsciiTo95 == " !\"#$%&'()*+,-./0123456789:;<=>?@ABCDEFGHIJKLMNOPQRSTUVWXYZ[\\]^_"

\* the characters of the code points 97 to 126
AsciiFrom97 == "abcdefghijklmnopqrstuvwxyz{|}~"

\* the byte of a character of the input text, which is ASCII: printable but
\* the grave accent, or tab, line feed, form feed, carriage return
ByteOf(c) ==
    LET low == IndexIn(AsciiTo95, c, 1)
        high == IndexIn(AsciiFrom97, c, 1)
    IN IF low # 0 THEN low + 31
       ELSE IF high # 0 THEN high + 96
       ELSE IF c = "\t" THEN 9
       ELSE IF c = "\n" THEN 10
       ELSE IF c = "\f" THEN 12
       ELSE 13

\* no code point: what getu4 answers where no \uXXXX starts
NoRune == 1114112

ReplacementChar == 65533

\* getu4: the number of the escape \uXXXX at position i, NoRune without one
GetU4(s, i) ==
    IF /\ i + 5 <= Len(s)
       /\ SubSeq(s, i, i + 1) = "\\u"
       /\ \A k \in 2..5 : HexValue(Char(s, i + k)) < 16
    THEN 4096 * HexValue(Char(s, i + 2)) + 256 * HexValue(Char(s, i + 3))
             + 16 * HexValue(Char(s, i + 4)) + HexValue(Char(s, i + 5))
    ELSE NoRune

\* utf16.IsSurrogate
IsSurrogate(r) == r >= 55296 /\ r < 57344

\* utf16.DecodeRune: the code point of a surrogate pair, ReplacementChar for
\* two numbers that are no pair
DecodeRune(r1, r2) ==
    IF r1 >= 55296 /\ r1 < 56320 /\ r2 >= 56320 /\ r2 < 57344
    THEN (r1 - 55296) * 1024 + (r2 - 56320) + 65536
    ELSE ReplacementChar

\* utf8.EncodeRune: the UTF-8 bytes of a code point; those of the replacement
\* character for a surrogate and for a number above the last code point
EncodeRune(r) ==
    LET c == IF r > 1114111 \/ IsSurrogate(r) THEN ReplacementChar ELSE r
    IN IF c < 128 THEN <<c>>
       ELSE IF c < 2048 THEN <<192 + (c \div 64), 128 + (c % 64)>>
       ELSE IF c < 65536
       THEN <<224 + (c \div 4096), 128 + ((c \div 64) % 64), 128 + (c % 64)>>
       ELSE <<240 + (c \div 262144), 128 + ((c \div 4096) % 64),
              128 + ((c \div 64) % 64), 128 + (c % 64)>>

NoString == [ok |-> FALSE, next |-> 0, text |-> <<>>]

\* a JSON string literal whose opening quote is before position i: the bytes of
\* the decoded text and the position after the closing quote. A raw control
\* character, an unknown escape, a \u without four hexadecimal digits and a
\* missing closing quote are syntax errors; half a surrogate pair decodes to
\* the replacement character.
RECURSIVE ScanString(_, _, _)
ScanString(s, i, acc) ==
    IF i > Len(s) THEN NoString
    ELSE LET c == Char(s, i)
         IN IF c = "\"" THEN [ok |-> TRUE, next |-> i + 1, text |-> acc]
            ELSE IF ByteOf(c) < 32 THEN NoString
            ELSE IF c # "\\" THEN ScanString(s, i + 1, Append(acc, ByteOf(c)))
            ELSE IF i + 1 > Len(s) THEN NoString
            ELSE LET e == Char(s, i + 1)
                 IN IF e \in {"\"", "\\", "/"}
                    THEN ScanString(s, i + 2, Append(acc, ByteOf(e)))
                    ELSE IF e = "b" THEN ScanString(s, i + 2, Append(acc, 8))
                    ELSE IF e = "f" THEN ScanString(s, i + 2, Append(acc, 12))
                    ELSE IF e = "n" THEN ScanString(s, i + 2, Append(acc, 10))
                    ELSE IF e = "r" THEN ScanString(s, i + 2, Append(acc, 13))
                    ELSE IF e = "t" THEN ScanString(s, i + 2, Append(acc, 9))
                    ELSE IF e = "u" /\ GetU4(s, i) # NoRune
                    THEN LET rr == GetU4(s, i)
                             pair == DecodeRune(rr, GetU4(s, i + 6))
                         IN IF ~IsSurrogate(rr)
                            THEN ScanString(s, i + 6, acc \o EncodeRune(rr))
                            ELSE IF pair # ReplacementChar
                            THEN ScanString(s, i + 12, acc \o EncodeRune(pair))
                            ELSE ScanString(s, i + 6, acc \o EncodeRune(ReplacementChar))
                    ELSE NoString

NilList == [nil |-> TRUE, items |-> <<>>]

IsDigit(c) == IndexIn("0123456789", c, 1) # 0

\* the first position at or after i that holds no digit
RECURSIVE SkipDigits(_, _)
SkipDigits(s, i) ==
    IF i <= Len(s) /\ IsDigit(Char(s, i)) THEN SkipDigits(s, i + 1) ELSE i

\* the digits of a number's integer part from i on: a single 0, or digits that
\* start with another one; the position after them, 0 when there are none
SkipInt(s, i) ==
    IF HasAt(s, i, "0") THEN i + 1
    ELSE IF SkipDigits(s, i) > i THEN SkipDigits(s, i)
    ELSE 0

\* a number's optional fraction at i, a dot and at least one digit
SkipFrac(s, i) ==
    IF i = 0 THEN 0
    ELSE IF ~HasAt(s, i, ".") THEN i
    ELSE IF SkipDigits(s, i + 1) > i + 1 THEN SkipDigits(s, i + 1)
    ELSE 0

\* the digits of an exponent at i, at least one
SkipExpDigits(s, i) == IF SkipDigits(s, i) > i THEN SkipDigits(s, i) ELSE 0

\* a number's optional exponent at i: e or E, an optional sign, digits
SkipExp(s, i) ==
    IF i = 0 THEN 0
    ELSE IF ~(HasAt(s, i, "e") \/ HasAt(s, i, "E")) THEN i
    ELSE IF HasAt(s, i + 1, "+") \/ HasAt(s, i + 1, "-") THEN SkipExpDigits(s, i + 2)
    ELSE SkipExpDigits(s, i + 1)

\* the position after the JSON number that starts at i, 0 when there is none:
\* an optional minus, an integer part, an optional fraction and an optional
\* exponent
SkipNumber(s, i) ==
    SkipExp(s, SkipFrac(s, SkipInt(s, IF HasAt(s, i, "-") THEN i + 1 ELSE i)))

\* where the scanner goes on: at position i, with its parseState stack of the
\* open arrays ("[") and objects ("{"), expecting a value ("value"), an object
\* key ("key") or what follows a value ("end")
ScanTo(i, parseState, step) ==
    [ok |-> TRUE, i |-> i, parseState |-> parseState, step |-> step]

ScanError == [ok |-> FALSE, i |-> 0, parseState |-> <<>>, step |-> "end"]

\* the scanner after a string value, str being what ScanString found
AfterString(str, parseState) ==
    IF str.ok THEN ScanTo(str.next, parseState, "end") ELSE ScanError

\* the scanner after a number, after being what SkipNumber found
AfterNumber(after, parseState) ==
    IF after # 0 THEN ScanTo(after, parseState, "end") ELSE ScanError

\* the scanner after an opening bracket, j being the position of what follows
\* it: the closing bracket, or the first element or key
AfterOpen(s, j, parseState, open, close, step) ==
    IF HasAt(s, j, close) THEN ScanTo(j + 1, parseState, "end")
    ELSE ScanTo(j, Append(parseState, open), step)

\* the scanner after an object key, key being what ScanString found: a colon
\* and the value
AfterKey(s, key, parseState) ==
    IF key.ok /\ HasAt(s, SkipSpace(s, key.next), ":")
    THEN ScanTo(SkipSpace(s, SkipSpace(s, key.next) + 1), parseState, "value")
    ELSE ScanError

\* the scanner after a value inside the innermost open array or object, j being
\* the position of what follows the value: a comma and the next element or key,
\* or the closing bracket
AfterValue(s, j, parseState, open) ==
    IF HasAt(s, j, ",")
    THEN ScanTo(SkipSpace(s, j + 1), parseState, IF open = "[" THEN "value" ELSE "key")
    ELSE IF HasAt(s, j, IF open = "[" THEN "]" ELSE "}")
    THEN ScanTo(j + 1, SubSeq(parseState, 1, Len(parseState) - 1), "end")
    ELSE ScanError

\* one step of the scanner of checkValid: over a string, a literal, a number,
\* an opening or closing bracket, a key with its colon, or a comma
ScanStep(s, i, parseState, step) ==
    IF step = "value"
    THEN IF i > Len(s) THEN ScanError
         ELSE IF HasAt(s, i, "\"")
         THEN AfterString(ScanString(s, i + 1, <<>>), parseState)
         ELSE IF HasAt(s, i, "null") THEN ScanTo(i + 4, parseState, "end")
         ELSE IF HasAt(s, i, "true") THEN ScanTo(i + 4, parseState, "end")
         ELSE IF HasAt(s, i, "false") THEN ScanTo(i + 5, parseState, "end")
         ELSE IF HasAt(s, i, "[")
         THEN AfterOpen(s, SkipSpace(s, i + 1), parseState, "[", "]", "value")
         ELSE IF HasAt(s, i, "{")
         THEN AfterOpen(s, SkipSpace(s, i + 1), parseState, "{", "}", "key")
         ELSE AfterNumber(SkipNumber(s, i), parseState)
    ELSE IF step = "key"
    THEN IF HasAt(s, i, "\"")
         THEN AfterKey(s, ScanString(s, i + 1, <<>>), parseState)
         ELSE ScanError
    ELSE AfterValue(s, SkipSpace(s, i), parseState, parseState[Len(parseState)])

\* the scanner of checkValid, run from where `to` says: the position after the
\* value the scan started with, reached when a value ends while nothing is
\* open, and 0 when the text does not fit
RECURSIVE Scan(_, _)
Scan(s, to) ==
    IF ~to.ok THEN 0
    ELSE IF to.step = "end" /\ to.parseState = <<>> THEN to.i
    ELSE Scan(s, ScanStep(s, to.i, to.parseState, to.step))

\* the position after the JSON value that starts at i, 0 when there is none
SkipValue(s, i) == Scan(s, ScanTo(i, <<>>, "value"))

\* the text is over at position i, but for white space
EndsAt(s, i) == i # 0 /\ SkipSpace(s, i) = Len(s) + 1

\* checkValid: the text is one JSON value with white space around it
Valid(s) == EndsAt(s, SkipValue(s, SkipSpace(s, 1)))

\* the kind of the JSON value that starts at i, as an *UnmarshalTypeError names it
KindAt(s, i) ==
    IF HasAt(s, i, "\"") THEN "string"
    ELSE IF HasAt(s, i, "null") THEN "null"
    ELSE IF HasAt(s, i, "true") \/ HasAt(s, i, "false") THEN "bool"
    ELSE IF HasAt(s, i, "[") THEN "array"
    ELSE IF HasAt(s, i, "{") THEN "object"
    ELSE "number"

\* a *SyntaxError, whatever its message
SyntaxError == "json: syntax error"

\* the message of an *UnmarshalTypeError
TypeError(kind, type) ==
    "json: cannot unmarshal " \o kind \o " into Go value of type " \o type

\* literalStore into a string: a string gives its text, any other value leaves
\* the element the empty string
ElemText(s, i) ==
    IF HasAt(s, i, "\"") THEN ScanString(s, i + 1, <<>>).text ELSE <<>>

\* saveError: the first error stays; an element that is neither a string nor
\* null is a type error
SaveError(err, kind) ==
    IF err = NoError /\ kind \notin {"string", "null"}
    THEN TypeError(kind, "string")
    ELSE err

\* the elements of the array of a valid text, the next one starting at i: each
\* is decoded, a type error is saved and the decoding goes on, and the first
\* saved error is returned with the filled slice once the array is closed
RECURSIVE UnmarshalElems(_, _, _, _)
UnmarshalElems(s, i, acc, err) ==
    IF HasAt(s, SkipSpace(s, SkipValue(s, i)), "]")
    THEN [err |-> SaveError(err, KindAt(s, i)),
          list |-> [nil |-> FALSE, items |-> Append(acc, ElemText(s, i))]]
    ELSE UnmarshalElems(s, SkipSpace(s, SkipSpace(s, SkipValue(s, i)) + 1),
                        Append(acc, ElemText(s, i)), SaveError(err, KindAt(s, i)))

\* the array that starts at i of a valid text, j being the position of what
\* follows its opening bracket
UnmarshalArray(s, j) ==
    IF HasAt(s, j, "]")
    THEN [err |-> NoError, list |-> [nil |-> FALSE, items |-> <<>>]]
    ELSE UnmarshalElems(s, j, <<>>, NoError)

\* the value that starts at i of a valid text, decoded into a nil []string:
\* null leaves the slice nil, an array fills it, any other value is a type
\* error and leaves it nil
UnmarshalValue(s, i, kind) ==
    IF kind = "null" THEN [err |-> NoError, list |-> NilList]
    ELSE IF kind = "array" THEN UnmarshalArray(s, SkipSpace(s, i + 1))
    ELSE [err |-> TypeError(kind, "[]string"), list |-> NilList]

\* json.Unmarshal of an ASCII text into a nil []string, each decoded string
\* being the sequence of its bytes. A text that is no JSON is a syntax error and
\* leaves the slice nil.
Unmarshal(s) ==
    IF Valid(s)
    THEN UnmarshalValue(s, SkipSpace(s, 1), KindAt(s, SkipSpace(s, 1)))
    ELSE [err |-> SyntaxError, list |-> NilList]

\* what KV().Get answers: (nil, err) on a failure, (nil, nil) for a key that is
\* not there, (pair, nil) for a key that is
KVFailed == [kind |-> "error", err |-> "connection refused", value |-> ""]

KVNotFound == [kind |-> "notfound", err |-> NoError, value |-> ""]

KVPair(value) == [kind |-> "pair", err |-> NoError, value |-> value]

\* loadFilter, given what its KV().Get answered
loadFilter(resp) ==
    IF resp.kind # "pair"
    THEN [list |-> NilList,
          err |-> Wrap(resp.err, "could not query Consul for filters on the KV storage")]
    ELSE LET decoded == Unmarshal(resp.value)
         IN IF decoded.err # NoError
            THEN [list |-> NilList,
                  err |-> Wrap(decoded.err, "error decoding the filter data")]
            ELSE [list |-> decoded.list, err |-> NoError]

FilterKeys == {TRENTO_FILTERS_PREFIX \o TRENTO_FILTERS[i] : i \in DOMAIN TRENTO_FILTERS}

Blobs ==
    {"[\"dev\",\"prod\"]", "[\"dev\"]", " [ \"dev\" , \"prod\" ]\n", "[\"d\\u0065v\\\"\"]",
     "[\"\\b\\u0060\\u00e9\\ud83d\\ude00\\ud83d\"]",
     "[]", "null", "[null]", "[1]", "[\"a\",-1.5e3,{\"b\":[true]}]", "{\"a\":\"b\"}", "[\"dev\"", "[\"de\tv\"]", ""}

KVResponses == {KVFailed, KVNotFound} \cup {KVPair(b) : b \in Blobs}

\* one iteration of `for _, filter := range TRENTO_FILTERS()`: one KV().Get,
\* answered by what the store holds at that moment (kv[key], each key being
\* read once in a load), then the decoding and the early return on an error
LoadOneFilter ==
    /\ pcF = "loop"
    /\ filterIdx <= Len(TRENTO_FILTERS)
    /\ LET filter == TRENTO_FILTERS[filterIdx]
           key == TRENTO_FILTERS_PREFIX \o filter
           got == loadFilter(kv[key])
       IN /\ kvCalls' = Append(kvCalls, key)
          /\ IF got.err # NoError
             THEN /\ filtersRet' = [nil |-> TRUE, data |-> EmptyMap, err |-> got.err]
                  /\ pcF' = "done"
                  /\ UNCHANGED <<filter_data, filterIdx>>
             ELSE /\ filter_data' = [k \in DOMAIN filter_data \cup {filter} |->
                                        IF k = filter THEN got.list ELSE filter_data[k]]
                  /\ filterIdx' = filterIdx + 1
                  /\ UNCHANGED <<filtersRet, pcF>>
    /\ UNCHANGED <<kv, varsQ, varsM, varsE>>

\* `return filter_data, nil` after the loop
ReturnFilters ==
    /\ pcF = "loop"
    /\ filterIdx > Len(TRENTO_FILTERS)
    /\ filtersRet' = [nil |-> FALSE, data |-> filter_data, err |-> NoError]
    /\ pcF' = "done"
    /\ UNCHANGED <<kv, filter_data, filterIdx, kvCalls, varsQ, varsM, varsE>>

InitFilters ==
    /\ kv \in [FilterKeys -> KVResponses]
    /\ filter_data = EmptyMap
    /\ filterIdx = 1
    /\ kvCalls = <<>>
    /\ filtersRet = [nil |-> TRUE, data |-> EmptyMap, err |-> NoError]
    /\ pcF = "loop"
    /\ IdleQ /\ IdleM /\ IdleE

NextFilters ==
    \/ LoadOneFilter
    \/ ReturnFilters

SpecFilters == InitFilters /\ [][NextFilters]_vars

----------------------------------------------------------------------------
(* Node.Health, contains and loadEnvironments *)

HealthPassing == "passing"

HealthWarning == "warning"

HealthCritical == "critical"

HealthMaint == "maintenance"

IsMaintenance(checkID) ==
    checkID = "_node_maintenance" \/ HasPrefix(checkID, "_service_maintenance:")

\* HealthChecks.AggregatedStatus of github.com/hashicorp/consul/api:
\* maintenance > critical > warning > passing, "" on a status it does not know,
\* and passing for no checks at all
AggregatedStatus(checks) ==
    LET real == {i \in DOMAIN checks : ~IsMaintenance(checks[i].CheckID)}
        has(status) == \E i \in real : checks[i].Status = status
    IN IF \E i \in real :
              checks[i].Status \notin {HealthPassing, HealthWarning, HealthCritical}
       THEN ""
       ELSE IF \E i \in DOMAIN checks : IsMaintenance(checks[i].CheckID) THEN HealthMaint
       ELSE IF has(HealthCritical) THEN HealthCritical
       ELSE IF has(HealthWarning) THEN HealthWarning
       ELSE HealthPassing

\* Node.Health: the error of Health().Node is dropped, the checks are aggregated
Health(resp) == AggregatedStatus(resp.checks)

contains(s, str) == \E i \in DOMAIN s : s[i] = str

\* seeding that stops after the first datacenter
SeedFirstOnly(dcs) ==
    [dc \in {dcs[i] : i \in DOMAIN dcs \cap {1}} |-> [Name |-> dc, Nodes |-> <<>>]]

\* the loop that seeds one Environment per datacenter
SeedEnvironments(dcs) == [dc \in Range(dcs) |-> [Name |-> dc, Nodes |-> <<>>]]

\* environments[dc].Nodes = append(environments[dc].Nodes, node)
AppendNode(envs, dc, node) ==
    [envs EXCEPT ![dc] = [Name |-> envs[dc].Name, Nodes |-> Append(envs[dc].Nodes, node)]]

\* a loop body that asks for the health of every node, filter or not
NeedsHealthAlways(filter) == TRUE

\* whether the loop body calls populated_node.Health()
NeedsHealth(filter) == Len(filter) # 0

\* the loop body without its health test
IncludedAlways(filter, resp) == TRUE

\* the condition of the loop body
Included(filter, resp) == Len(filter) = 0 \/ contains(filter, Health(resp))

\* `return environments, err` in place of `return nil, err`
PartialEnvs(err) == [nil |-> FALSE, envs |-> environments, err |-> err]

NilEnvs(err) == [nil |-> TRUE, envs |-> EmptyMap, err |-> err]

Call(name, arg) == [call |-> name, arg |-> arg]

LoadDatacenters ==
    /\ pcE = "start"
    /\ calls' = Append(calls, Call("Datacenters", ""))
    /\ IF dcsResp.err # NoError
       THEN /\ envRet' = NilEnvs(Wrap(dcsResp.err, "could not query Consul for datacenters"))
            /\ pcE' = "returned"
            /\ UNCHANGED environments
       ELSE /\ environments' = SeedEnvironments(dcsResp.dcs)
            /\ pcE' = "seeded"
            /\ UNCHANGED envRet
    /\ UNCHANGED <<dcsResp, nodesResp, healthResp, health_filter, idx>>
    /\ UNCHANGED <<varsQ, varsM, varsF>>

LoadNodes ==
    /\ pcE = "seeded"
    /\ calls' = Append(calls, Call("Nodes", ""))
    /\ IF nodesResp.err # NoError
       THEN /\ envRet' = NilEnvs(Wrap(nodesResp.err, "could not query Consul for nodes"))
            /\ pcE' = "returned"
            /\ UNCHANGED idx
       ELSE /\ idx' = 1
            /\ pcE' = "loop"
            /\ UNCHANGED envRet
    /\ UNCHANGED <<dcsResp, nodesResp, healthResp, health_filter, environments>>
    /\ UNCHANGED <<varsQ, varsM, varsF>>

\* one iteration of `for _, node := range nodes`
VisitNode ==
    /\ pcE = "loop"
    /\ idx <= Len(nodesResp.nodes)
    /\ LET node == nodesResp.nodes[idx]
       IN /\ calls' = IF NeedsHealth(health_filter)
                      THEN Append(calls, Call("Health", node.Node))
                      ELSE calls
          /\ IF Included(health_filter, healthResp[node.Node])
             THEN IF node.Datacenter \in DOMAIN environments
                  THEN /\ environments' = AppendNode(environments, node.Datacenter, node)
                       /\ idx' = idx + 1
                       /\ pcE' = "loop"
                  ELSE \* environments[node.Datacenter] is a nil *Environment
                       /\ pcE' = "panicked"
                       /\ UNCHANGED <<environments, idx>>
             ELSE /\ idx' = idx + 1
                  /\ pcE' = "loop"
                  /\ UNCHANGED environments
    /\ UNCHANGED <<dcsResp, nodesResp, healthResp, health_filter, envRet>>
    /\ UNCHANGED <<varsQ, varsM, varsF>>

ReturnEnvironments ==
    /\ pcE = "loop"
    /\ idx > Len(nodesResp.nodes)
    /\ envRet' = [nil |-> FALSE, envs |-> environments, err |-> NoError]
    /\ pcE' = "returned"
    /\ UNCHANGED <<dcsResp, nodesResp, healthResp, health_filter, environments, idx, calls>>
    /\ UNCHANGED <<varsQ, varsM, varsF>>

DcNames == {"dc1", "dc2"}

\* a catalog node may report a datacenter that Datacenters() did not list
NodeDcNames == DcNames \cup {"dc3"}

NodeName(i) == "node" \o ToString(i)

CatalogFailed == "connection refused"

DcsResponses ==
    {[err |-> CatalogFailed, dcs |-> <<>>]}
        \cup {[err |-> NoError, dcs |-> d] : d \in SeqsUpTo(DcNames, Cardinality(DcNames))}

NodeLists ==
    UNION {{[i \in 1..k |-> [Node |-> NodeName(i), Datacenter |-> d[i]]] :
               d \in [1..k -> NodeDcNames]} : k \in 0..MaxNodes}

NodesResponses ==
    {[err |-> CatalogFailed, nodes |-> <<>>]}
        \cup {[err |-> NoError, nodes |-> n] : n \in NodeLists}

Check(status) == [CheckID |-> "serfHealth", Status |-> status]

\* Health().Node answers (nil, err) on a failure
HealthFailed == [err |-> "connection refused", checks |-> <<>>]

HealthResponses ==
    {HealthFailed}
        \cup {[err |-> NoError, checks |-> c] :
                 c \in {<<Check(HealthPassing)>>, <<Check(HealthCritical)>>,
                        <<Check(HealthPassing), Check(HealthWarning)>>,
                        <<Check(HealthCritical),
                          [CheckID |-> "_service_maintenance:web", Status |-> HealthCritical]>>}}

HealthFilters == {<<>>, <<HealthPassing>>, <<HealthCritical, HealthWarning>>}

InitEnv ==
    /\ dcsResp \in DcsResponses
    /\ nodesResp \in NodesResponses
    /\ healthResp \in [{nodesResp.nodes[i].Node : i \in DOMAIN nodesResp.nodes}
                          -> HealthResponses]
    /\ health_filter \in HealthFilters
    /\ environments = EmptyMap
    /\ idx = 0
    /\ envRet = [nil |-> TRUE, envs |-> EmptyMap, err |-> NoError]
    /\ calls = <<>>
    /\ pcE = "start"
    /\ IdleQ /\ IdleM /\ IdleF

NextEnv ==
    \/ LoadDatacenters
    \/ LoadNodes
    \/ VisitNode
    \/ ReturnEnvironments

SpecEnv == InitEnv /\ [][NextEnv]_vars

----------------------------------------------------------------------------
(* Properties of loadFilters *)

FilterNames == Range(TRENTO_FILTERS)

StoredAt(name) == kv[TRENTO_FILTERS_PREFIX \o name]

\* the key is there and its value is a JSON list of strings
Decodes(name) ==
    /\ StoredAt(name).kind = "pair"
    /\ Unmarshal(StoredAt(name).value).err = NoError

\* C1: loadFilters returns either an error and no mapping, or a mapping whose
\* keys are exactly the three filter names, each with the list decoded from the
\* value stored under trento/filters/<name>; a failed fetch, an absent key or a
\* value that does not decode makes the whole load fail with no mapping.
C1_LoadFiltersAllOrNothing ==
    pcF = "done" =>
        /\ \/ filtersRet.err # NoError /\ filtersRet.nil
           \/ /\ filtersRet.err = NoError
              /\ ~filtersRet.nil
              /\ DOMAIN filtersRet.data = FilterNames
              /\ \A name \in FilterNames :
                     /\ Decodes(name)
                     /\ filtersRet.data[name] = Unmarshal(StoredAt(name).value).list
        /\ (\E name \in FilterNames : ~Decodes(name))
               => (filtersRet.err # NoError /\ filtersRet.nil)

----------------------------------------------------------------------------
(* Properties of CreateFilterMetaQuery *)

ReservedKeys(q) == {k \in DOMAIN q : HasPrefix(k, TRENTO_PREFIX)}

EqualityClause(key, value) == "Meta[\"" \o key \o "\"] == \"" \o value \o "\""

Disjunction(key, values) ==
    Join([i \in 1..Len(values) |-> EqualityClause(key, values[i])], " or ")

HasSuffix(s, suffix) ==
    /\ Len(s) >= Len(suffix)
    /\ SubSeq(s, Len(s) - Len(suffix) + 1, Len(s)) = suffix

\* C5: for a query holding a single reserved tag k with values v1..vn, n >= 1,
\* repeated values included, the result is the clauses Meta["k"] == "vi" in the
\* order supplied with " or " between every two consecutive clauses and nowhere
\* else.
C5_SingleTagDisjunction ==
    (/\ pcQ = "done"
     /\ Cardinality(DOMAIN query) = 1
     /\ ReservedKeys(query) = DOMAIN query)
        => \A k \in DOMAIN query :
               Len(query[k]) >= 1 => query_filter = Disjunction(k, query[k])

\* C6: the result is the " and "-join of exactly one non-empty per-tag
\* expression for each reserved key and nothing for any other key, with no
\* empty conjunct and no leading or trailing " and "; it is empty when no key is
\* reserved. The per-tag expressions are taken as the builder makes them.
C6_ConjunctionOfReservedTags ==
    pcQ = "done" =>
        /\ \E order \in Perms(ReservedKeys(query)) :
               query_filter =
                   Join([i \in DOMAIN order |-> ValuesLoop("", order[i], query[order[i]], 1)],
                        " and ")
        /\ \A k \in ReservedKeys(query) : ValuesLoop("", k, query[k], 1) # ""
        /\ ~HasPrefix(query_filter, " and ")
        /\ ~HasSuffix(query_filter, " and ")
        /\ (ReservedKeys(query) = {} => query_filter = "")

----------------------------------------------------------------------------
(* Properties of Node.TrentoMeta *)

\* C8: TrentoMeta returns exactly the restriction of the node's metadata to the
\* keys that begin with "trento-": no other key, every such key with its value,
\* and the node's metadata is as it was before the call.
C8_TrentoMetaIsRestriction ==
    pcM = "done" =>
        /\ \A k \in DOMAIN filtered_meta : HasPrefix(k, TRENTO_PREFIX)
        /\ \A k \in DOMAIN metaBefore :
               HasPrefix(k, TRENTO_PREFIX)
                   => (k \in DOMAIN filtered_meta /\ filtered_meta[k] = metaBefore[k])
        /\ DOMAIN filtered_meta \subseteq DOMAIN metaBefore
        /\ nodeMeta = metaBefore

C8_Witness ==
    /\ pcM = "done"
    /\ DOMAIN metaBefore = MetaKeys
    /\ DOMAIN filtered_meta = {"trento-env", "trento-sys"}
    /\ filtered_meta["trento-env"] # filtered_meta["trento-sys"]

----------------------------------------------------------------------------
(* Properties of loadEnvironments *)

Returned == pcE = "returned"

ReturnedList == pcE = "returned" /\ ~envRet.nil

Enumerated == Range(dcsResp.dcs)

Nodes == nodesResp.nodes

\* every node the Nodes call returned is in a datacenter the Datacenters call listed
AllEnumerated == \A i \in DOMAIN Nodes : Nodes[i].Datacenter \in Enumerated

CatalogFails == dcsResp.err # NoError \/ nodesResp.err # NoError

HealthFails(name) == healthResp[name].err # NoError

\* C2: whatever the backends answer, loadEnvironments ends by returning either
\* an EnvironmentList or an error, also for a node of a datacenter that
\* Datacenters() did not list; it never crashes.
C2_LoadNeverCrashes ==
    /\ pcE # "panicked"
    /\ Returned => (envRet.nil <=> envRet.err # NoError)

\* C3: a returned EnvironmentList has exactly the datacenters of the
\* Datacenters call as its keys, each entry named by its key, whatever the
\* filters exclude.
C3_SeededWithAllDatacenters ==
    ReturnedList =>
        /\ DOMAIN envRet.envs = Enumerated
        /\ \A dc \in DOMAIN envRet.envs : envRet.envs[dc].Name = dc

C3_Witness ==
    /\ ReturnedList
    /\ dcsResp.dcs = <<"dc1", "dc2">>
    /\ Len(Nodes) >= 2
    /\ health_filter # <<>>
    /\ \A dc \in DOMAIN envRet.envs : envRet.envs[dc].Nodes = <<>>

\* the node passes the health filter
Passes(node) ==
    \/ health_filter = <<>>
    \/ \E i \in DOMAIN health_filter :
           health_filter[i] = AggregatedStatus(healthResp[node.Node].checks)

BelongsTo(dc, node) == node.Datacenter = dc /\ Passes(node)

ExpectedNodes(dc) == SelectSeq(Nodes, LAMBDA node : BelongsTo(dc, node))

\* C4: when a list is returned and every node's datacenter was enumerated, the
\* nodes of each Environment are, in catalog order, exactly the returned nodes
\* of that datacenter that pass the health filter.
C4_NodesAreFilteredSubsequence ==
    (ReturnedList /\ AllEnumerated) =>
        \A dc \in DOMAIN envRet.envs : envRet.envs[dc].Nodes = ExpectedNodes(dc)

\* node1 is passing, node2 is critical, the filter is [passing]: only node1
C4_Witness ==
    /\ ReturnedList
    /\ AllEnumerated
    /\ health_filter = <<HealthPassing>>
    /\ Len(Nodes) >= 2
    /\ Nodes[1].Datacenter = "dc1"
    /\ Nodes[2].Datacenter = "dc1"
    /\ healthResp[Nodes[1].Node].checks = <<Check(HealthPassing)>>
    /\ healthResp[Nodes[2].Node].checks = <<Check(HealthCritical)>>
    /\ "dc1" \in DOMAIN envRet.envs
    /\ envRet.envs["dc1"].Nodes = <<Nodes[1]>>

\* C7: the health of a node whose health lookup failed is none of passing,
\* warning and critical, so with the health filter [passing] such a node is in
\* no Environment of the returned list.
C7_FailedHealthIsUnknown ==
    ReturnedList =>
        /\ \A i \in DOMAIN Nodes :
               HealthFails(Nodes[i].Node)
                   => Health(healthResp[Nodes[i].Node])
                          \notin {HealthPassing, HealthWarning, HealthCritical}
        /\ health_filter = <<HealthPassing>>
               => \A dc \in DOMAIN envRet.envs :
                      \A i \in DOMAIN envRet.envs[dc].Nodes :
                          ~HealthFails(envRet.envs[dc].Nodes[i].Node)

\* C9: when every node's datacenter was enumerated, the load returns; it
\* returns an error exactly when Datacenters or Nodes failed, and then no list
\* at all; failed health lookups never make it an error, and the list it
\* returns has every datacenter.
C9_ErrorIffCatalogFails ==
    (CatalogFails \/ AllEnumerated) =>
        /\ pcE # "panicked"
        /\ Returned =>
               /\ envRet.err # NoError <=> CatalogFails
               /\ envRet.err # NoError => envRet.nil
               /\ envRet.err = NoError
                      => (~envRet.nil /\ DOMAIN envRet.envs = Enumerated)

\* every health lookup failed, under an active filter, and a list is returned
C9_Witness ==
    /\ ReturnedList
    /\ envRet.err = NoError
    /\ AllEnumerated
    /\ health_filter # <<>>
    /\ Len(Nodes) >= 2
    /\ \A i \in DOMAIN Nodes : HealthFails(Nodes[i].Node)
    /\ Cardinality(DOMAIN envRet.envs) = 2

IsPrefix(a, b) == Len(a) <= Len(b) /\ SubSeq(b, 1, Len(a)) = a

HealthCalls == [i \in DOMAIN Nodes |-> Call("Health", Nodes[i].Node)]

\* the remote calls of a whole load, in order
ExpectedCalls ==
    <<Call("Datacenters", "")>>
        \o (IF dcsResp.err # NoError THEN <<>>
            ELSE <<Call("Nodes", "")>>
                     \o (IF nodesResp.err # NoError \/ health_filter = <<>>
                         THEN <<>>
                         ELSE HealthCalls))

\* C10: the remote calls of one load are a fixed sequence without retry:
\* Datacenters once and first, Nodes at most once and only after Datacenters
\* succeeded, then at most one health lookup per returned node, in catalog
\* order, only when the health filter is not empty; nothing follows a failed
\* Datacenters or Nodes call.
C10_CallSequence ==
    /\ IsPrefix(calls, ExpectedCalls)
    /\ pcE # "start" => (Len(calls) >= 1 /\ calls[1] = Call("Datacenters", ""))
    /\ Returned => calls = ExpectedCalls

C10_Witness ==
    /\ Returned
    /\ envRet.err = NoError
    /\ Len(Nodes) >= 2
    /\ calls = <<Call("Datacenters", ""), Call("Nodes", "")>> \o HealthCalls
    /\ HealthFails(Nodes[1].Node)

====
